---- MODULE Spec2Model ----
(***************************************************************************)
(* SellMyPi backend: the transaction routes (routes/transactionRoutes.js), *)
(* the user-deletion route (routes/userRoutes.js), the image-deletion      *)
(* route (routes/cloudinaryRoutes.js) and the Transaction schema.          *)
(*                                                                         *)
(* Every transaction handler awaits exactly one store command, and each    *)
(* store command (insert, findOneAndUpdate, findOneAndDelete, find,        *)
(* deleteMany) acts atomically on the collection, so such a handler is one *)
(* action taken at its store command.  The user-deletion handler awaits    *)
(* two calls in a row and is modelled step by step.                        *)
(***************************************************************************)
EXTENDS Integers, Sequences, FiniteSets, TLC

\* ---------------------------------------------------------------- bounds
\* Number of steps (handler steps and clock ticks) a behaviour takes.
MaxSteps == 5

\* ------------------------------------------------------------- JS values
\* A JSON value of a request body: its type tag and its text.
Undefined == [t |-> "undefined", v |-> ""]
Str(s) == [t |-> "string", v |-> s]
Num(s) == [t |-> "number", v |-> s]
Obj == [t |-> "object", v |-> ""]
CastError == [t |-> "CastError", v |-> ""]

\* Strings that Number() reads as a number.
NumericStrings == {"5", "7"}

Users == {"u1", "u2"}

VARIABLES
  txns,      \* the Transaction collection: a set of documents
  steps,     \* the number of steps taken so far
  nextId,    \* the next ObjectId the driver generates
  now,       \* the wall clock
  du,        \* the DELETE /api/users/:id request in flight
  last,      \* the response sent by the step just taken (NoResponse when it sent none)
  returned,  \* history: the _id of each document DELETE /api/transactions/:id returned
  orig,      \* history: each stored document as it was inserted
  prev,      \* history: the status the record had before the UpdateStatus that
             \* the step just taken answered 200 (NoStatus for any other step)
  config,    \* cloudinary.config()
  img        \* the outcome of the most recent POST /api/cloudinary/delete

vars == <<steps, txns, nextId, now, du, last, returned, orig, prev, config, img>>

\* ------------------------------------------------------ Transaction schema
\* The enum of the status path, applied when a document is validated (on
\* save; findByIdAndUpdate runs no validators).
statusEnum == {"pending", "approved", "rejected", "completed", "processing"}

\* The list of the PUT /:id/status handler.
validStatuses_WithDone ==
  {"pending", "approved", "rejected", "completed", "processing", "done"}

validStatuses == {"pending", "approved", "rejected", "completed", "processing"}

\* Mongoose SchemaString cast.
castString(x) ==
  CASE x.t = "string" -> x
    [] x.t = "number" -> Str(x.v)
    [] x.t = "undefined" -> Undefined
    [] OTHER -> CastError

\* Mongoose SchemaNumber cast.
castNumber(x) ==
  CASE x.t = "number" -> x
    [] x.t = "string" /\ x.v = "" -> Undefined
    [] x.t = "string" /\ x.v \in NumericStrings -> Num(x.v)
    [] x.t = "undefined" -> Undefined
    [] OTHER -> CastError

\* `required: true` on a String path: present and not the empty string.
requiredString(x) == x.t = "string" /\ x.v # ""

\* `required: true` on a Number path.
requiredNumber(x) == x.t = "number"

\* userInfoSchema: four required strings, no _id of its own.
castUserInfo(u) ==
  [t |-> u.t,
   id |-> castString(u.id),
   username |-> castString(u.username),
   email |-> castString(u.email),
   phone |-> castString(u.phone)]

validUserInfo(u) ==
  /\ u.t = "object"
  /\ requiredString(u.id)
  /\ requiredString(u.username)
  /\ requiredString(u.email)
  /\ requiredString(u.phone)

\* The status default of the schema: an absent status becomes 'pending'.
statusDefault(s) == IF s.t = "undefined" THEN Str("pending") ELSE s

\* new Transaction(obj): the paths of transactionSchema, cast, with defaults.
transactionSchema(obj) ==
  [status |-> statusDefault(castString(obj.status)),
   userInfo |-> castUserInfo(obj.userInfo),
   upiId |-> castString(obj.upiId),
   piAmount |-> castNumber(obj.piAmount),
   usdValue |-> castString(obj.usdValue),
   inrValue |-> castString(obj.inrValue),
   SellRateUsd |-> castString(obj.SellRateUsd),
   SellRateInr |-> castString(obj.SellRateInr),
   imageUrl |-> castString(obj.imageUrl)]

\* document.validate(): required paths and the status enum.
validate(d) ==
  /\ requiredString(d.status) /\ d.status.v \in statusEnum
  /\ validUserInfo(d.userInfo)
  /\ requiredString(d.upiId)
  /\ requiredNumber(d.piAmount)
  /\ requiredString(d.usdValue)
  /\ requiredString(d.inrValue)
  /\ requiredString(d.SellRateUsd)
  /\ requiredString(d.SellRateInr)
  /\ requiredString(d.imageUrl)

\* `timestamps: true`: createdAt and updatedAt are set on insert.
timestamps(d, id, time) ==
  [d EXCEPT !._id = id, !.createdAt = time, !.updatedAt = time]

\* A stored document: the cast paths plus _id and the two timestamps
\* (0 stands for a timestamp that is not set).
newDocument(d) ==
  [_id |-> 0, status |-> d.status.v, userInfo |-> d.userInfo, upiId |-> d.upiId,
   piAmount |-> d.piAmount, usdValue |-> d.usdValue, inrValue |-> d.inrValue,
   SellRateUsd |-> d.SellRateUsd, SellRateInr |-> d.SellRateInr,
   imageUrl |-> d.imageUrl, createdAt |-> 0, updatedAt |-> 0]

\* A param casts to ObjectId when it is a 24-digit hex string; 0 stands for
\* every string that does not.
castObjectId(id) == id >= 1

\* ---------------------------------------------------------- request bodies
userInfoOf(u) ==
  [t |-> "object", id |-> Str(u), username |-> Str("name"),
   email |-> Str("mail"), phone |-> Str("phone")]

body(u) ==
  [piAmount |-> Num("5"), usdValue |-> Str("1.5"), inrValue |-> Str("120"),
   upiId |-> Str("a@upi"), imageUrl |-> Str("img"), userInfo |-> userInfoOf(u),
   SellRateUsd |-> Str("0.3"), SellRateInr |-> Str("24"), status |-> Undefined]

\* Bodies the schema accepts: plain, with casts to do, with a status of its own.
ValidBodies ==
  {body("u2"),
   [body("u1") EXCEPT !.piAmount = Str("7"), !.usdValue = Num("5"),
                      !.status = Str("approved")]}

\* Bodies the schema rejects: a required path absent, empty or not castable.
InvalidBodies ==
  {[body("u1") EXCEPT !.upiId = Undefined],
   [body("u1") EXCEPT !.imageUrl = Str("")],
   [body("u1") EXCEPT !.piAmount = Str("abc")],
   [body("u2") EXCEPT !.usdValue = Obj],
   [body("u2") EXCEPT !.userInfo = [userInfoOf("u2") EXCEPT !.t = "undefined"]],
   [body("u2") EXCEPT !.userInfo = [userInfoOf("u2") EXCEPT !.id = Undefined]]}

Bodies == ValidBodies \cup InvalidBodies

\* Values of req.body.status sent to PUT /:id/status.
StatusInputs ==
  {Str(s) : s \in validStatuses} \cup {Str("done"), Str(""), Undefined}

\* Values of the :id param: 0 is not an ObjectId; the others are, and nextId
\* is one that no document has had yet.
IdInputs == 0..nextId

\* ---------------------------------------------------------------- responses
NoDocs == << >>

\* res.status(status).json(...): the route, the status code, the message, the
\* error the handler caught ("" when none) and the documents sent.
Response(op, status, message, threw, docs) ==
  [op |-> op, status |-> status, message |-> message, threw |-> threw,
   docs |-> docs]

NoResponse == Response("none", 0, "", "", NoDocs)

NoStatus == ""

\* No DELETE /api/users/:id request has arrived yet.
NoDeleteUser == [pc |-> "idle", id |-> "", clerk |-> "", bulk |-> ""]

Init ==
  /\ steps = 0
  /\ txns = {}
  /\ nextId = 1
  /\ now = 1
  /\ du = NoDeleteUser
  /\ last = NoResponse
  /\ returned = << >>
  /\ orig = << >>
  /\ prev = NoStatus
  /\ config = [cloud_name |-> <<"acct">>, api_key |-> <<"key">>,
               api_secret |-> <<"secret">>]
  /\ img = [public_id |-> [t |-> "undefined", s |-> << >>],
            imageUrl |-> [t |-> "undefined", s |-> << >>],
            status |-> 0, message |-> "", destroyed |-> << >>]

\* Every step of the transaction and user routes counts towards MaxSteps.
Budget == steps < MaxSteps /\ steps' = steps + 1

\* The wall clock advances.
Tick ==
  /\ Budget
  /\ prev' = NoStatus
  /\ now' = now + 1
  /\ last' = NoResponse
  /\ UNCHANGED <<txns, nextId, du, returned, orig, config, img>>

\* ------------------------------------------------- POST /api/transactions
\* const { piAmount, ..., SellRateInr } = req.body: the eight fields the
\* handler hands to the model; anything else in the body is dropped.
pickFields_WholeBody(b) == b

pickFields(b) == [b EXCEPT !.status = Undefined]

\* The status of the catch block of router.post('/'), whatever was caught.
createErrorStatus_ByKind(error) == IF error = "ValidationError" THEN 400 ELSE 500

createErrorStatus(error) == 500

CreateTransaction(b) ==
  LET transaction == transactionSchema(pickFields(b)) IN
  /\ Budget
  /\ prev' = NoStatus
  /\ UNCHANGED <<now, du, returned, config, img>>
  /\ IF ~validate(transaction)
       THEN /\ last' = Response("Create", createErrorStatus("ValidationError"),
                                "Error saving transaction", "ValidationError", NoDocs)
            /\ UNCHANGED <<txns, nextId, orig>>
       ELSE \E stored \in BOOLEAN :
              IF ~stored
                THEN /\ last' = Response("Create", createErrorStatus("StoreError"),
                                         "Error saving transaction", "StoreError", NoDocs)
                     /\ UNCHANGED <<txns, nextId, orig>>
                ELSE /\ LET savedTransaction ==
                              timestamps(newDocument(transaction), nextId, now)
                        IN /\ txns' = txns \cup {savedTransaction}
                           /\ orig' = [i \in DOMAIN orig \cup {nextId} |->
                                         IF i = nextId THEN savedTransaction ELSE orig[i]]
                           /\ last' = Response("Create", 201, "", "",
                                               <<savedTransaction>>)
                     /\ nextId' = nextId + 1

\* -------------------------------------------------- GET /api/transactions
\* find().sort({ createdAt: -1 }): every order of the collection with
\* createdAt descending (equal createdAt in any order).
sortCreatedAtDesc(S) ==
  {s \in [1..Cardinality(S) -> S] :
     /\ \A i, j \in 1..Cardinality(S) : i # j => s[i] # s[j]
     /\ \A i, j \in 1..Cardinality(S) : i < j => s[i].createdAt >= s[j].createdAt}

GetAllTransactions ==
  /\ Budget
  /\ prev' = NoStatus
  /\ UNCHANGED <<txns, nextId, now, du, returned, orig, config, img>>
  /\ \E found \in BOOLEAN :
       IF ~found
         THEN last' = Response("ListAll", 500, "Internal server error",
                               "StoreError", NoDocs)
         ELSE \E transactions \in sortCreatedAtDesc(txns) :
                last' = Response("ListAll", 200, "", "", transactions)

\* ------------------------------------------- PUT /api/transactions/:id/status
\* validStatuses.includes(status)
includes_AnyString(status) == status.t = "string"

includes(status) == status.t = "string" /\ status.v \in validStatuses

\* The document findByIdAndUpdate and findByIdAndDelete act on: the one with
\* the id, whatever its status is.
findById_Unfinished(id) ==
  {d \in txns : d._id = id /\ d.status \notin {"approved", "rejected", "completed"}}

findById(id) == {d \in txns : d._id = id}

\* The update of findByIdAndUpdate(id, { status }): $set of status, and of
\* updatedAt by the schema's timestamps.
applyUpdate_Overwrite(d, status, time) ==
  [d EXCEPT !.status = status, !.updatedAt = time, !.upiId = Undefined]

applyUpdate(d, status, time) ==
  [d EXCEPT !.status = status, !.updatedAt = time]

\* What findByIdAndUpdate does when no document has the id: nothing.
whenMissing_Upsert(id, status, time) ==
  {[newDocument(transactionSchema(body("u1"))) EXCEPT
      !._id = id, !.status = status, !.updatedAt = time]}

whenMissing(id, status, time) == {}

UpdateStatus(id, status) ==
  /\ Budget
  /\ UNCHANGED <<nextId, now, du, returned, config, img>>
  /\ IF ~includes(status)
       THEN /\ last' = Response("UpdateStatus", 400, "Invalid status", "", NoDocs)
            /\ prev' = NoStatus
            /\ UNCHANGED <<txns, orig>>
       ELSE IF ~castObjectId(id)
         THEN /\ last' = Response("UpdateStatus", 500, "Internal server error",
                                  "CastError", NoDocs)
              /\ prev' = NoStatus
              /\ UNCHANGED <<txns, orig>>
       ELSE \E done \in BOOLEAN :
         IF ~done
           THEN /\ last' = Response("UpdateStatus", 500, "Internal server error",
                                    "StoreError", NoDocs)
                /\ prev' = NoStatus
                /\ UNCHANGED <<txns, orig>>
         ELSE IF findById(id) = {}
           THEN /\ txns' = txns \cup whenMissing(id, status.v, now)
                /\ last' = Response("UpdateStatus", 404, "Transaction not found",
                                    "", NoDocs)
                /\ prev' = NoStatus
                /\ UNCHANGED orig
           ELSE \E d \in findById(id) :
                  LET transaction == applyUpdate(d, status.v, now) IN
                  /\ txns' = (txns \ {d}) \cup {transaction}
                  /\ last' = Response("UpdateStatus", 200, "", "", <<transaction>>)
                  /\ prev' = d.status
                  /\ UNCHANGED orig

\* ---------------------------------------------- DELETE /api/transactions/:id
\* findByIdAndDelete(id): the collection without the document.
findByIdAndDelete_Keep(d) == txns

findByIdAndDelete(d) == txns \ {d}

DeleteTransaction(id) ==
  /\ Budget
  /\ prev' = NoStatus
  /\ UNCHANGED <<nextId, now, du, config, img>>
  /\ IF ~castObjectId(id)
       THEN /\ last' = Response("Delete", 500, "Internal server error",
                                "CastError", NoDocs)
            /\ UNCHANGED <<txns, orig, returned>>
       ELSE \E done \in BOOLEAN :
         IF ~done
           THEN /\ last' = Response("Delete", 500, "Internal server error",
                                    "StoreError", NoDocs)
                /\ UNCHANGED <<txns, orig, returned>>
         ELSE IF findById(id) = {}
           THEN /\ last' = Response("Delete", 404, "Transaction not found",
                                    "", NoDocs)
                /\ UNCHANGED <<txns, orig, returned>>
           ELSE \E transaction \in findById(id) :
                  /\ txns' = findByIdAndDelete(transaction)
                  /\ orig' = [i \in {d._id : d \in txns'} |-> orig[i]]
                  /\ returned' = Append(returned, id)
                  /\ last' = Response("Delete", 200,
                                      "Transaction deleted successfully", "",
                                      <<transaction>>)

\* ------------------------------------------------- DELETE /api/users/:id
\* du.pc is where the handler stands: "idle" (no request in flight), "clerk"
\* (awaiting clerkClient.users.deleteUser), "deleteMany" (awaiting
\* Transaction.deleteMany), "respond" (about to send the success response).
\* du.clerk and du.bulk record how the two calls of the request ended
\* ("", "deleted" or "failed"); they stay until the next request arrives.
\* The request arrives and calls clerkClient.users.deleteUser(id).
DeleteUserStart(u) ==
  /\ Budget
  /\ prev' = NoStatus
  /\ du.pc = "idle"
  /\ du' = [pc |-> "clerk", id |-> u, clerk |-> "", bulk |-> ""]
  /\ last' = NoResponse
  /\ UNCHANGED <<txns, nextId, now, returned, orig, config, img>>

\* The inner catch: what the handler does when the identity provider fails.
clerkFailed_FallThrough ==
  /\ du' = [du EXCEPT !.pc = "deleteMany", !.clerk = "failed"]
  /\ last' = NoResponse

clerkFailed ==
  /\ du' = [du EXCEPT !.pc = "idle", !.clerk = "failed"]
  /\ last' = Response("DeleteUser", 500,
                      "Failed to delete user from authentication system",
                      "ClerkError", NoDocs)

\* clerkClient.users.deleteUser(id) returns or throws.
DeleteUserClerk ==
  /\ Budget
  /\ prev' = NoStatus
  /\ du.pc = "clerk"
  /\ UNCHANGED <<txns, nextId, now, returned, orig, config, img>>
  /\ \E deleted \in BOOLEAN :
       IF deleted
         THEN /\ du' = [du EXCEPT !.pc = "deleteMany", !.clerk = "deleted"]
              /\ last' = NoResponse
         ELSE clerkFailed

\* The outer catch: what the handler does when deleteMany throws.
deleteManyFailed_Swallow ==
  /\ du' = [du EXCEPT !.pc = "respond", !.bulk = "failed"]
  /\ last' = NoResponse

deleteManyFailed ==
  /\ du' = [du EXCEPT !.pc = "idle", !.bulk = "failed"]
  /\ last' = Response("DeleteUser", 500, "Internal server error",
                      "StoreError", NoDocs)

\* Transaction.deleteMany({ 'userInfo.id': id }): the collection it leaves.
deleteMany_ByUsername(id) == {d \in txns : d.userInfo.username.v # id}

deleteMany(id) == {d \in txns : d.userInfo.id.v # id}

\* The store runs deleteMany, or the call throws.
DeleteUserDeleteMany ==
  /\ Budget
  /\ prev' = NoStatus
  /\ du.pc = "deleteMany"
  /\ UNCHANGED <<nextId, now, returned, config, img>>
  /\ \E done \in BOOLEAN :
       IF done
         THEN /\ txns' = deleteMany(du.id)
              /\ orig' = [i \in {d._id : d \in txns'} |-> orig[i]]
              /\ du' = [du EXCEPT !.pc = "respond", !.bulk = "deleted"]
              /\ last' = NoResponse
         ELSE /\ deleteManyFailed
              /\ UNCHANGED <<txns, orig>>

\* res.json({ message: 'User and associated data deleted successfully' })
DeleteUserRespond ==
  /\ Budget
  /\ prev' = NoStatus
  /\ du.pc = "respond"
  /\ du' = [du EXCEPT !.pc = "idle"]
  /\ last' = Response("DeleteUser", 200,
                      "User and associated data deleted successfully", "", NoDocs)
  /\ UNCHANGED <<txns, nextId, now, returned, orig, config, img>>

\* --------------------------------------------- POST /api/cloudinary/delete
\* A string is the sequence of its tokens: "/", ".", the host marker
\* "cloudinary.com", the letter "v", a digit, or a run of other characters.
\* A body field is such a string or is absent, or is a number.
Absent == [t |-> "undefined", s |-> << >>]
Text(tokens) == [t |-> "string", s |-> tokens]
Number5 == [t |-> "number", s |-> << >>]
Null == [t |-> "null", s |-> << >>]

HostMarker == "cloudinary.com"
Digits == {"1", "2", "3"}

\* !x for the values above: undefined, null and '' are falsy.
falsy(x) == x.t \in {"undefined", "null"} \/ (x.t = "string" /\ x.s = << >>)

Min(S) == CHOOSE x \in S : \A y \in S : x <= y
Max(S) == CHOOSE x \in S : \A y \in S : x >= y

\* url.match(/cloudinary\.com\/([^/]+)/): the first marker that a "/" and a
\* character other than "/" follow; the group runs up to the next "/".
cloudNameMatch(url) ==
  LET n == Len(url)
      starts == {i \in 1..n : /\ url[i] = HostMarker
                              /\ i + 2 <= n
                              /\ url[i + 1] = "/"
                              /\ url[i + 2] # "/"}
  IN IF starts = {} THEN Null
     ELSE LET i == Min(starts)
              k == Max({e \in (i + 2)..n : \A m \in (i + 2)..e : url[m] # "/"})
          IN Text(SubSeq(url, i + 2, k))

\* (.+?)\.[^.]+$ on the text from q on: the group is what precedes the last
\* ".", and something must precede it and follow it.
extensionMatch(url, q) ==
  LET dots == {d \in q..Len(url) : url[d] = "."}
  IN dots # {} /\ Max(dots) > q /\ Max(dots) < Len(url)

\* (?:[^/]+\/)* from p up to vs: whole, non-empty segments.
transformationsMatch(url, p, vs) ==
  \/ vs = p
  \/ /\ vs > p
     /\ url[vs - 1] = "/"
     /\ url[p] # "/"
     /\ \A m \in p..(vs - 2) : ~(url[m] = "/" /\ url[m + 1] = "/")

\* v\d+\/ from vs, ending just before q.
versionMatch(url, vs, q) ==
  /\ q - vs >= 3
  /\ url[vs] = "v"
  /\ \A m \in (vs + 1)..(q - 2) : url[m] \in Digits
  /\ url[q - 1] = "/"

\* url.match(/\/upload\/(?:[^/]+\/)*v\d+\/(.+?)\.[^.]+$/): the leftmost
\* "/upload/" from which the pattern matches, with as many transformation
\* segments as possible (the star is greedy).
publicIdMatch(url) ==
  LET n == Len(url)
      ends(a) == {q \in (a + 3)..n :
                    \E vs \in (a + 3)..q :
                       /\ transformationsMatch(url, a + 3, vs)
                       /\ versionMatch(url, vs, q)
                       /\ extensionMatch(url, q)}
      starts == {a \in 1..n : /\ a + 2 <= n
                              /\ url[a] = "/"
                              /\ url[a + 1] = "upload"
                              /\ url[a + 2] = "/"
                              /\ ends(a) # {}}
  IN IF starts = {} THEN Null
     ELSE LET q == Max(ends(Min(starts)))
              d == Max({i \in q..n : url[i] = "."})
          IN Text(SubSeq(url, q, d - 1))

\* extractCloudinaryInfo(url)
extractCloudinaryInfo(url) ==
  IF falsy(url)
    THEN [public_id |-> Null, cloud_name |-> Null]
  ELSE IF url.t # "string"
    \* url.includes is not a function: the catch returns the nulls
    THEN [public_id |-> Null, cloud_name |-> Null]
  ELSE IF \E i \in 1..Len(url.s) : url.s[i] = HostMarker
    THEN [public_id |-> publicIdMatch(url.s), cloud_name |-> cloudNameMatch(url.s)]
  ELSE [public_id |-> url, cloud_name |-> Null]

\* config/cloudinary.js: an environment variable that is set may still be
\* blank, and trim() leaves '' of it.
trim(value) == IF value = <<" ">> THEN << >> ELSE value

EnvValues(name) == {<<name>>, <<" ">>}

cloudinaryConfig(env) ==
  [cloud_name |-> trim(env.cloud_name),
   api_key |-> trim(env.api_key),
   api_secret |-> trim(env.api_secret)]

\* !currentConfig.cloud_name || !currentConfig.api_key || !currentConfig.api_secret
configMissing ==
  config.cloud_name = << >> \/ config.api_key = << >> \/ config.api_secret = << >>

\* urlCloudName && urlCloudName !== currentConfig.cloud_name
cloudNameMismatch_OnlyWithoutPublicId(public_id, urlCloudName) ==
  falsy(public_id) /\ ~falsy(urlCloudName) /\ urlCloudName.s # config.cloud_name

cloudNameMismatch(public_id, urlCloudName) ==
  ~falsy(urlCloudName) /\ urlCloudName.s # config.cloud_name

\* What cloudinary.uploader.destroy answers: result.result, or it throws.
DestroyResults == {"ok", "not found", "error", "throws"}

ImageResponse(public_id, imageUrl, status, message, destroyed) ==
  [public_id |-> public_id, imageUrl |-> imageUrl, status |-> status,
   message |-> message, destroyed |-> destroyed]

NoImageResponse == ImageResponse(Absent, Absent, 0, "", << >>)

\* A call of cloudinary.uploader.destroy: its argument and what it answered.
destroy(public_id, result) == [public_id |-> public_id, result |-> result]

DeleteImage_MismatchFirst(public_id, imageUrl) ==
  LET info == extractCloudinaryInfo(imageUrl)
      urlCloudName == info.cloud_name
      finalPublicId == IF falsy(public_id) THEN info.public_id ELSE public_id
      reply(status, message, destroyed) ==
        img' = ImageResponse(public_id, imageUrl, status, message, destroyed)
  IN IF falsy(finalPublicId)
       THEN reply(400, "Valid public_id or imageUrl is required", << >>)
     ELSE IF cloudNameMismatch(public_id, urlCloudName)
       THEN reply(400, "Cloud name mismatch between URL and configuration", << >>)
     ELSE IF configMissing
       THEN reply(500, "Cloudinary configuration error", << >>)
     ELSE \E result \in DestroyResults :
       CASE result = "ok" ->
              reply(200, "Image deleted successfully",
                    <<destroy(finalPublicId, result)>>)
         [] result = "not found" ->
              reply(404, "Image not found in Cloudinary",
                    <<destroy(finalPublicId, result)>>)
         [] result = "error" ->
              reply(400, "Failed to delete image",
                    <<destroy(finalPublicId, result)>>)
         [] OTHER ->
              reply(500, "Server error while deleting image",
                    <<destroy(finalPublicId, result)>>)

DeleteImage(public_id, imageUrl) ==
  LET info == extractCloudinaryInfo(imageUrl)
      urlCloudName == info.cloud_name
      finalPublicId == IF falsy(public_id) THEN info.public_id ELSE public_id
      reply(status, message, destroyed) ==
        img' = ImageResponse(public_id, imageUrl, status, message, destroyed)
  IN IF falsy(finalPublicId)
       THEN reply(400, "Valid public_id or imageUrl is required", << >>)
     ELSE IF configMissing
       THEN reply(500, "Cloudinary configuration error", << >>)
     ELSE IF cloudNameMismatch(public_id, urlCloudName)
       THEN reply(400, "Cloud name mismatch between URL and configuration", << >>)
     ELSE \E result \in DestroyResults :
       CASE result = "ok" ->
              reply(200, "Image deleted successfully",
                    <<destroy(finalPublicId, result)>>)
         [] result = "not found" ->
              reply(404, "Image not found in Cloudinary",
                    <<destroy(finalPublicId, result)>>)
         [] result = "error" ->
              reply(400, "Failed to delete image",
                    <<destroy(finalPublicId, result)>>)
         [] OTHER ->
              reply(500, "Server error while deleting image",
                    <<destroy(finalPublicId, result)>>)

\* Values of req.body.public_id.
PublicIds == {Absent, Text(<< >>), Text(<<"folder", "/", "other">>), Number5}

UrlOf(account, path) ==
  Text(<<"https:", "/", "/", "res", ".", HostMarker, "/">> \o account \o path)

\* Values of req.body.imageUrl.
ImageUrls ==
  {Absent,
   Text(<< >>),
   Number5,
   Text(<<"folder", "/", "name">>),
   Text(<<HostMarker>>),
   UrlOf(<<"acct">>, <<"/", "image", "/", "upload", "/", "v", "1", "2", "/",
                       "folder", "/", "name", ".", "png">>),
   UrlOf(<<"other">>, <<"/", "image", "/", "upload", "/", "v", "1", "2", "/",
                        "folder", "/", "name", ".", "png">>),
   UrlOf(<<"acct">>, <<"/", "image", "/", "upload", "/", "w_100", "/", "v", "3",
                       "/", "v", "1", "/", "name", ".", "tar", ".", "gz">>),
   UrlOf(<<"other">>, <<"/", "raw", "/", "name", ".", "png">>),
   UrlOf(<< >>, <<"/", "upload", "/", "v", "1", "/", "name">>)}

\* ------------------------------------------------------------ specification
Next ==
  \/ Tick
  \/ \E b \in Bodies : CreateTransaction(b)
  \/ GetAllTransactions
  \/ \E id \in IdInputs, status \in StatusInputs : UpdateStatus(id, status)
  \/ \E id \in IdInputs : DeleteTransaction(id)
  \/ \E u \in Users : DeleteUserStart(u)
  \/ DeleteUserClerk
  \/ DeleteUserDeleteMany
  \/ DeleteUserRespond

Spec == Init /\ [][Next]_vars

\* The image route alone, under every configuration the process can start with.
InitImage ==
  /\ steps = 0
  /\ txns = {}
  /\ nextId = 1
  /\ now = 1
  /\ du = NoDeleteUser
  /\ last = NoResponse
  /\ returned = << >>
  /\ orig = << >>
  /\ prev = NoStatus
  /\ \E cn \in EnvValues("acct"), key \in EnvValues("key"),
        secret \in EnvValues("secret") :
        config = cloudinaryConfig([cloud_name |-> cn, api_key |-> key,
                                   api_secret |-> secret])
  /\ img = NoImageResponse

NextImage ==
  /\ \E public_id \in PublicIds, imageUrl \in ImageUrls :
        DeleteImage(public_id, imageUrl)
  /\ UNCHANGED <<steps, txns, nextId, now, du, last, returned, orig, prev,
                  config>>

SpecImage == InitImage /\ [][NextImage]_vars

\* ------------------------------------------------------------------ claims
docsOf(u) == {d \in txns : d.userInfo.id.v = u}

idsOf(S) == {d._id : d \in S}

Range(f) == {f[i] : i \in DOMAIN f}

\* The five statuses the specification enumerates.
Enumerated == {"pending", "processing", "approved", "rejected", "completed"}

\* C1: whenever the identity provider's deletion call of a DeleteUser request
\* fails, that step ends the request with a 500 response and leaves the
\* collection exactly as it was.
C1_ClerkFailureAborts ==
  [][(du.pc = "clerk" /\ du'.clerk = "failed") =>
       /\ du'.pc = "idle"
       /\ last'.op = "DeleteUser"
       /\ last'.status = 500
       /\ txns' = txns]_vars

\* C1 witness: the provider failed for a user who has stored transactions; the
\* request is over with 500 and they are still stored.
C1_Witness ==
  /\ du.pc = "idle" /\ du.clerk = "failed"
  /\ last.op = "DeleteUser" /\ last.status = 500
  /\ docsOf(du.id) # {}

\* C2: the record a Create stores and returns with 201 has status pending and
\* both timestamps set, also when the body carries a status of its own.
C2_CreatedPendingWithTimestamps ==
  (last.op = "Create" /\ last.status = 201) =>
     /\ Len(last.docs) = 1
     /\ last.docs[1] \in txns
     /\ last.docs[1].status = "pending"
     /\ last.docs[1].createdAt > 0
     /\ last.docs[1].updatedAt > 0

\* C2 witness: a 201 for the body that asked for status approved (the one
\* whose piAmount arrived as the string "7").
C2_Witness ==
  /\ last.op = "Create" /\ last.status = 201
  /\ last.docs[1].piAmount = Num("7")
  /\ last.docs[1] \in txns

\* C3: UpdateStatus with a status outside the five enumerated values (a
\* missing one included) answers 400 and changes no stored record, whatever
\* the id is.
C3_InvalidStatusRejected ==
  [][\A id \in IdInputs, status \in StatusInputs :
       (/\ ~(status.t = "string" /\ status.v \in Enumerated)
        /\ last'.op = "UpdateStatus"
        /\ UpdateStatus(id, status))
         => (last'.status = 400 /\ txns' = txns)]_vars

\* C3 witness: a 400 from UpdateStatus while a record is stored.
C3_Witness ==
  last.op = "UpdateStatus" /\ last.status = 400 /\ txns # {}

\* C4: UpdateStatus with an enumerated status and a well-formed id that no
\* stored record has answers 404 (the store command having completed) and
\* leaves the collection unchanged.
C4_UnassignedIdNotFound ==
  [][\A id \in IdInputs, status \in StatusInputs :
       (/\ status.t = "string" /\ status.v \in Enumerated
        /\ castObjectId(id)
        /\ id \notin idsOf(txns)
        /\ last'.op = "UpdateStatus" /\ last'.threw # "StoreError"
        /\ UpdateStatus(id, status))
         => (last'.status = 404 /\ txns' = txns)]_vars

\* C4 witness: a 404 from UpdateStatus while another record is stored.
C4_Witness ==
  last.op = "UpdateStatus" /\ last.status = 404 /\ txns # {}

\* What Delete does for one id, the store command having completed: 404 and
\* no change when no record has the id; otherwise the record is removed and
\* its prior state is the one document of the 200 response.
DeleteOutcome(id) ==
  IF id \notin idsOf(txns)
    THEN last'.status = 404 /\ txns' = txns
    ELSE /\ last'.status = 200
         /\ Len(last'.docs) = 1
         /\ last'.docs[1] \in txns /\ last'.docs[1]._id = id
         /\ txns' = txns \ {last'.docs[1]}

\* Once returned by a Delete, a record is never returned again, is never
\* stored again, and no ListAll response holds it.
DeletedForGood ==
  /\ \A i, j \in DOMAIN returned : i # j => returned[i] # returned[j]
  /\ Range(returned) \cap idsOf(txns) = {}
  /\ (last.op = "ListAll" /\ last.status = 200) =>
        /\ Range(last.docs) = txns
        /\ idsOf(Range(last.docs)) \cap Range(returned) = {}

\* C5 as stated: for every id, also one that is no ObjectId, Delete behaves as
\* DeleteOutcome says.
C5_Original ==
  /\ []DeletedForGood
  /\ [][\A id \in IdInputs :
          (last'.op = "Delete" /\ last'.threw # "StoreError" /\ DeleteTransaction(id))
            => DeleteOutcome(id)]_vars

\* C5 amended: for every well-formed id Delete behaves as DeleteOutcome says;
\* for an id that is no ObjectId it answers 500 and changes nothing.
C5_DeleteOnce ==
  /\ []DeletedForGood
  /\ [][\A id \in IdInputs :
          (last'.op = "Delete" /\ last'.threw # "StoreError" /\ DeleteTransaction(id))
            => IF castObjectId(id)
                 THEN DeleteOutcome(id)
                 ELSE last'.status = 500 /\ txns' = txns]_vars

\* C5 witness: a record was returned by a Delete, and a later Delete got 404.
C5_Witness ==
  /\ Len(returned) = 1
  /\ last.op = "Delete" /\ last.status = 404
  /\ nextId = 2

\* The fields of a record that no operation may change.
sameButStatus(d, e) ==
  /\ d._id = e._id
  /\ d.userInfo = e.userInfo
  /\ d.upiId = e.upiId
  /\ d.piAmount = e.piAmount
  /\ d.usdValue = e.usdValue
  /\ d.inrValue = e.inrValue
  /\ d.SellRateUsd = e.SellRateUsd
  /\ d.SellRateInr = e.SellRateInr
  /\ d.imageUrl = e.imageUrl
  /\ d.createdAt = e.createdAt

\* C6: while a record is stored, its id, userInfo, upiId, the monetary
\* fields, imageUrl and createdAt are those it was created with; a step that
\* changes a stored record is a successful UpdateStatus, and it changes
\* status and updatedAt only.
C6_OnlyStatusChanges ==
  /\ [](\A d \in txns : d._id \in DOMAIN orig /\ sameButStatus(orig[d._id], d))
  /\ [][\A d \in txns, e \in txns' :
          (d._id = e._id /\ d # e) =>
             /\ last'.op = "UpdateStatus" /\ last'.status = 200
             /\ last'.docs = <<e>>
             /\ sameButStatus(d, e)]_vars

\* C6 witness: a stored record whose status and updatedAt are no longer those
\* of its creation, just after the UpdateStatus that returned it.
C6_Witness ==
  /\ last.op = "UpdateStatus" /\ last.status = 200
  /\ \E d \in txns : /\ last.docs = <<d>>
                     /\ d.status # orig[d._id].status
                     /\ d.updatedAt # orig[d._id].updatedAt

\* The account name derived from the URL of the last image request is
\* present and is not the configured one.
accountMismatch ==
  LET urlCloudName == extractCloudinaryInfo(img.imageUrl).cloud_name
  IN img.status # 0 /\ urlCloudName.t = "string" /\ urlCloudName.s # << >>
     /\ urlCloudName.s # config.cloud_name

\* An identifier resolves for the last image request.
identifierResolves ==
  ~falsy(img.public_id) \/ ~falsy(extractCloudinaryInfo(img.imageUrl).public_id)

\* C7 as stated: on a mismatch with the configured account name the response
\* is 400 and destroy is not called.
C7_Original ==
  (accountMismatch /\ config.cloud_name # << >>) =>
     (img.status = 400 /\ img.destroyed = << >>)

\* C7 amended: on an account mismatch destroy is never called, with or without
\* an explicit public_id; the response is 400, except that it is 500 when an
\* identifier resolves and the store credentials are incomplete.
C7_MismatchNeverDestroys ==
  accountMismatch =>
     /\ img.destroyed = << >>
     /\ img.status = IF identifierResolves /\ configMissing THEN 500 ELSE 400

\* C7 witness: a mismatch request that carried an explicit public_id was
\* answered 400 under complete credentials.
C7_Witness ==
  /\ accountMismatch
  /\ ~falsy(img.public_id)
  /\ ~configMissing
  /\ img.status = 400
  /\ img.message = "Cloud name mismatch between URL and configuration"

\* C8 as stated: once the identity deletion has succeeded, the response of
\* DeleteUser is the 200 success response.
C8_Original ==
  [][(last'.op = "DeleteUser" /\ du'.clerk = "deleted") => last'.status = 200]_vars

\* C8 amended: DeleteUser answers 200 exactly when both the identity deletion
\* and the bulk delete succeeded; when the bulk delete fails after the
\* identity deletion succeeded it answers 500 and the collection is as it was.
C8_SuccessNeedsBothSteps ==
  [][last'.op = "DeleteUser" =>
       /\ last'.status = 200 <=> (du'.clerk = "deleted" /\ du'.bulk = "deleted")
       /\ (du'.clerk = "deleted" /\ du'.bulk = "failed") =>
             /\ last'.status = 500
             /\ last'.message = "Internal server error"
             /\ txns' = txns]_vars

\* C8 witness: the identity is gone, the bulk delete failed, the response was
\* 500 and the user's transactions are still stored.
C8_Witness ==
  /\ du.pc = "idle" /\ du.clerk = "deleted" /\ du.bulk = "failed"
  /\ last.op = "DeleteUser" /\ last.status = 500
  /\ docsOf(du.id) # {}

\* C9: the bulk delete of DeleteUser(u) leaves no record of u, and a record
\* comes to be stored only by a successful Create that returns it; so after a
\* successful DeleteUser(u) a record of u is stored only if a Create for u
\* stored it after the bulk delete ran.
C9_OnlyCreateLeavesResidue ==
  /\ [][(du.pc = "deleteMany" /\ du'.bulk = "deleted") =>
          {d \in txns' : d.userInfo.id.v = du.id} = {}]_vars
  /\ [][\A e \in txns' :
          e._id \notin idsOf(txns) =>
             (last'.op = "Create" /\ last'.status = 201 /\ last'.docs = <<e>>)]_vars

\* C9 witness: DeleteUser(u) has just answered 200 and a record of u is
\* stored: a Create for u answered 201 between the bulk delete and the
\* response.
C9_Witness ==
  /\ last.op = "DeleteUser" /\ last.status = 200
  /\ du.pc = "idle" /\ du.bulk = "deleted"
  /\ docsOf(du.id) # {}

\* C10 as stated: a Create whose body lacks a required field, or holds a
\* malformed one, answers 400 and stores nothing.
C10_Original ==
  [][\A b \in InvalidBodies :
       (last'.op = "Create" /\ CreateTransaction(b))
          => (last'.status = 400 /\ txns' = txns)]_vars

\* C10 amended: such a Create fails with a ValidationError, which the handler
\* reports as 500, and stores nothing.
C10_InvalidCreateIs500 ==
  [][\A b \in InvalidBodies :
       (last'.op = "Create" /\ CreateTransaction(b)) =>
          /\ last'.threw = "ValidationError"
          /\ last'.status = 500
          /\ txns' = txns /\ nextId' = nextId]_vars

\* C10 witness: a Create was refused with a ValidationError.
C10_Witness ==
  last.op = "Create" /\ last.threw = "ValidationError" /\ last.status = 500

\* The identifier the last image request resolves to: the explicit public_id
\* when the request carried one, else the one derived from its imageUrl.
resolvedIdentifier ==
  IF ~falsy(img.public_id)
    THEN img.public_id
    ELSE extractCloudinaryInfo(img.imageUrl).public_id

\* C11: DeleteImage decides in a fixed order.  No identifier resolves: 400.
\* Otherwise incomplete credentials: 500.  Otherwise an account mismatch: 400.
\* In these three cases destroy is not called.  Otherwise destroy is called
\* exactly once, with the resolved identifier, and the response is 200 when it
\* answers ok, 404 when it answers not found, 400 when it answers anything
\* else (and 500 when the call throws instead of answering).
C11_ChecksInOrder ==
  img.status # 0 =>
    IF ~identifierResolves
      THEN /\ img.status = 400
           /\ img.message = "Valid public_id or imageUrl is required"
           /\ img.destroyed = << >>
    ELSE IF config.cloud_name = << >> \/ config.api_key = << >>
              \/ config.api_secret = << >>
      THEN /\ img.status = 500
           /\ img.message = "Cloudinary configuration error"
           /\ img.destroyed = << >>
    ELSE IF accountMismatch
      THEN /\ img.status = 400
           /\ img.message = "Cloud name mismatch between URL and configuration"
           /\ img.destroyed = << >>
    ELSE /\ Len(img.destroyed) = 1
         /\ img.destroyed[1].public_id = resolvedIdentifier
         /\ img.status = CASE img.destroyed[1].result = "ok" -> 200
                            [] img.destroyed[1].result = "not found" -> 404
                            [] img.destroyed[1].result = "throws" -> 500
                            [] OTHER -> 400

\* C11 witness: a request whose identifier came from its URL, whose URL named
\* the configured account, under complete credentials: destroy was called
\* once with the derived identifier, answered not found, and the response
\* was 404.
C11_Witness ==
  /\ falsy(img.public_id)
  /\ extractCloudinaryInfo(img.imageUrl).cloud_name = Text(config.cloud_name)
  /\ img.destroyed = <<destroy(Text(<<"folder", "/", "name">>), "not found")>>
  /\ img.status = 404

\* C12: in every reachable state, whatever Create, UpdateStatus, Delete and
\* DeleteUser requests were made and however they interleaved, the status of
\* every stored record is one of pending, processing, approved, rejected,
\* completed.
C12_StatusAlwaysEnumerated ==
  \A d \in txns : d.status \in Enumerated

\* C12 witness: a record is stored with a status an UpdateStatus gave it, and
\* an UpdateStatus that asked for a status outside the five has just been
\* refused.
C12_Witness ==
  /\ last.op = "UpdateStatus" /\ last.status = 400
  /\ \E d \in txns : d.status = "completed"

\* UpdateStatus(id, t) answers 200 and leaves the record with status t.
UpdatedTo(id, t) ==
  /\ last'.status = 200
  /\ Len(last'.docs) = 1
  /\ last'.docs[1]._id = id /\ last'.docs[1].status = t
  /\ last'.docs[1] \in txns'
  /\ \A e \in txns' : e._id = id => e = last'.docs[1]

\* C13: UpdateStatus imposes no transition restriction.  For every stored
\* record, whatever its status s, and every enumerated target t (t = s and
\* moves out of approved, rejected or completed included): a step
\* UpdateStatus(id, t) is possible that answers 200 and leaves the record with
\* status t, and every UpdateStatus(id, t) whose store command completes is
\* such a step.
C13_NoTransitionRestriction ==
  /\ [](\A d \in txns, t \in Enumerated :
          steps < MaxSteps =>
            ENABLED (UpdateStatus(d._id, Str(t)) /\ UpdatedTo(d._id, t)
                     /\ prev' = d.status))
  /\ [][\A id \in IdInputs, status \in StatusInputs :
          (/\ status.t = "string" /\ status.v \in Enumerated
           /\ id \in idsOf(txns)
           /\ last'.op = "UpdateStatus" /\ last'.threw # "StoreError"
           /\ UpdateStatus(id, status))
            => (UpdatedTo(id, status.v) /\ prev' \in Enumerated)]_vars

\* C13 witness: a record that was completed has just been moved back to
\* pending by an UpdateStatus that answered 200.
C13_Witness ==
  /\ last.op = "UpdateStatus" /\ last.status = 200
  /\ prev = "completed"
  /\ \E d \in txns : last.docs = <<d>> /\ d.status = "pending"

====
